---- MODULE Spec2Model ----
(***************************************************************************)
(* Model of the Dalya Amazon Deal Bot:                                     *)
(*   clean_keyword_deal_bot.py  link normalizer, deal enricher, pipeline   *)
(*   app.py / main.py           result cache, top-deals cache, refresh loop*)
(*                                                                         *)
(* Representation.  A Python value that may be None is a sequence of       *)
(* length 0 (None) or 1.  A URL is a record                                *)
(*   [scheme, host, path, qs]                                              *)
(* whose host is the sequence of its dot-separated labels (already lower   *)
(* case) and whose qs is the sequence of <<key, value>> pairs of its query *)
(* string.  A text built by an f-string is the sequence of its pieces.     *)
(***************************************************************************)
EXTENDS Integers, Sequences, FiniteSets, TLC

None == <<>>
Some(x) == <<x>>
IsNone(o) == o = <<>>

RECURSIVE SeqsUpTo(_, _)
\* all sequences over S of length at most n
SeqsUpTo(S, n) ==
    IF n = 0 THEN {<<>>}
    ELSE LET shorter == SeqsUpTo(S, n - 1)
         IN shorter \cup {Append(s, x) : s \in {t \in shorter : Len(t) = n - 1}, x \in S}

(***************************************************************************)
(* settings (clean_keyword_deal_bot.py)                                    *)
(***************************************************************************)
DEFAULT_TAG == "2025050f-20"
MAX_RESULTS == 5
PLACEHOLDER_IMG == "data:image/svg+xml;base64,PHN2ZyB3aWR0aD0iMTYwIiBoZWlnaHQ9IjE2MCIgeG1sbnM9Imh0dHA6Ly93d3cudzMub3JnLzIwMDAvc3ZnIj48cmVjdCB3aWR0aD0iMTYwIiBoZWlnaHQ9IjE2MCIgZmlsbD0iI2Y1ZjVmNSIvPjx0ZXh0IHg9IjgwIiB5PSI4MCIgZm9udC1mYW1pbHk9IkFyaWFsIiBmb250LXNpemU9IjE0IiBmaWxsPSIjNjY2IiB0ZXh0LWFuY2hvcj0ibWlkZGxlIiBkb21pbmFudC1iYXNlbGluZT0ibWlkZGxlIj5ObyBJbWFnZTwvdGV4dD48L3N2Zz4="
REDIRECT_HOSTS == {<<"slickdeals", "net">>, <<"go", "skimresources", "com">>}
\* RAINFOREST_KEY is read from the environment: it is part of the state (rainforest).

(***************************************************************************)
(* URLs                                                                    *)
(***************************************************************************)
Url(scheme, host, path, qs) == [scheme |-> scheme, host |-> host, path |-> path, qs |-> qs]

\* "needle in host" for dotted names: needle's labels occur contiguously in host's.
\* (Exact for the label vocabulary of this model, in which no label is a proper
\* substring of another.)
HostContains(host, needle) ==
    \E i \in 0..(Len(host) - Len(needle)) :
        \A j \in 1..Len(needle) : host[i + j] = needle[j]

\* ".amazon." in host: a label "amazon" with a label before it and one after it
HasDotAmazonDot(host) == \E i \in 2..(Len(host) - 1) : host[i] = "amazon"

\* host.endswith(".a.co")
EndsWithDotACo(host) ==
    /\ Len(host) >= 3
    /\ host[Len(host) - 1] = "a"
    /\ host[Len(host)] = "co"

\* the URLs that occur as the (percent-encoded) value of a url= / u= parameter:
\* unquote, then urlparse
Unquote(v) ==
    CASE v = "https%3A%2F%2Fwww.amazon.com%2Fdp%2FB000000002%3Fref%3Dsd" ->
            Url("https", <<"www", "amazon", "com">>, "/dp/B000000002", << <<"ref", "sd">> >>)
      [] v = "https%3A%2F%2Fwww.walmart.com%2Fip%2F1" ->
            Url("https", <<"www", "walmart", "com">>, "/ip/1", <<>>)
      [] OTHER -> Url("", <<>>, v, <<>>)

RECURSIVE FirstValue(_, _)
\* parse_qs(query)[key][0], or None when the key is absent
FirstValue(qs, key) ==
    IF qs = <<>> THEN None
    ELSE IF Head(qs)[1] = key /\ Head(qs)[2] # "" THEN Some(Head(qs)[2])
    ELSE FirstValue(Tail(qs), key)

_extract_embedded_url(url) ==
    IF \E h \in REDIRECT_HOSTS : HostContains(url.host, h)
    THEN IF ~IsNone(FirstValue(url.qs, "url")) THEN Unquote(FirstValue(url.qs, "url")[1])
         ELSE IF ~IsNone(FirstValue(url.qs, "u")) THEN Unquote(FirstValue(url.qs, "u")[1])
         ELSE url
    ELSE url

\* requests.head(url, allow_redirects=True).url when the request succeeds: the
\* short link of this model redirects to a product page, every other URL answers itself
FinalUrl(url) ==
    IF url.host = <<"amzn", "to">>
    THEN Url("https", <<"www", "amazon", "com">>, "/dp/B000000001",
             << <<"ref", "short">>, <<"th", "1">> >>)
    ELSE url

\* requests.head raises a RequestException (MissingSchema) for a URL without a scheme
HeadRaises(url, head_ok) == url.scheme = "" \/ ~head_ok

\* unquote of a query value (parse_qs decodes %xx and +), on the values of this model
unquote_value(v) ==
    CASE v = "a%20b" -> "a b"
      [] v = "a+b" -> "a b"
      [] OTHER -> v

RECURSIVE ParseQsAcc(_, _)
ParseQsAcc(qs, acc) ==
    IF qs = <<>> THEN acc
    ELSE LET k == Head(qs)[1]
             v == unquote_value(Head(qs)[2])
         IN IF v = "" THEN ParseQsAcc(Tail(qs), acc)
            ELSE IF \E i \in 1..Len(acc) : acc[i][1] = k
            THEN LET i == CHOOSE j \in 1..Len(acc) : acc[j][1] = k
                 IN ParseQsAcc(Tail(qs), [acc EXCEPT ![i] = <<k, Append(acc[i][2], v)>>])
            ELSE ParseQsAcc(Tail(qs), Append(acc, <<k, <<v>> >>))

\* parse_qs(query, keep_blank_values=False): an insertion-ordered dict key -> values,
\* as a sequence of <<key, values>>
parse_qs(qs) == ParseQsAcc(qs, <<>>)

JUNK == {"ascsubtag", "ref", "psc", "crid", "qid", "sr"}

\* the loop of line 63 with "psc" missing from its list
PopJunk_keeps_psc(d) == SelectSeq(d, LAMBDA e : e[1] \notin (JUNK \ {"psc"}))

\* for junk in (...): qs.pop(junk, None)
PopJunk(d) == SelectSeq(d, LAMBDA e : e[1] \notin JUNK)

\* the tag appended to the values of an existing key, not put in their place
SetTag_appending(d, tag) ==
    IF \E i \in 1..Len(d) : d[i][1] = "tag"
    THEN [i \in 1..Len(d) |-> IF d[i][1] = "tag" THEN <<"tag", Append(d[i][2], tag)>> ELSE d[i]]
    ELSE Append(d, <<"tag", <<tag>> >>)

\* qs["tag"] = [tag]: an existing key keeps its place, a new key goes last
SetTag(d, tag) ==
    IF \E i \in 1..Len(d) : d[i][1] = "tag"
    THEN [i \in 1..Len(d) |-> IF d[i][1] = "tag" THEN <<"tag", <<tag>> >> ELSE d[i]]
    ELSE Append(d, <<"tag", <<tag>> >>)

\* quote_plus on the texts of this model
quote_plus(text) ==
    CASE text = "ring" -> "ring"
      [] text = "Ring Doorbell Deal" -> "Ring+Doorbell+Deal"
      [] text = "Smart RING $20" -> "Smart+RING+%2420"
      [] text = "Desk Lamp" -> "Desk+Lamp"
      [] text = "lamp" -> "lamp"
      [] text = "Electronics Sale" -> "Electronics+Sale"
      [] text = "Home Deal" -> "Home+Deal"
      [] text = "Fashion Offer" -> "Fashion+Offer"
      [] text = "electronics" -> "electronics"
      [] text = "home" -> "home"
      [] text = "fashion" -> "fashion"
      [] text = "a b" -> "a+b"
      [] OTHER -> text

RECURSIVE urlencode(_)
\* urlencode(qs, doseq=True): one key=quote_plus(value) per value, in dict order
urlencode(d) ==
    IF d = <<>> THEN <<>>
    ELSE [i \in 1..Len(Head(d)[2]) |-> <<Head(d)[1], quote_plus(Head(d)[2][i])>>]
         \o urlencode(Tail(d))

\* the host test of _normalize_amazon_link
IsAmazonHost(host) == HasDotAmazonDot(host) \/ EndsWithDotACo(host)

\* _normalize_amazon_link(raw_url, tag); head_ok is the fate of the HEAD request.
\* None stands for "raise ValueError".  The result always has a tag parameter, so
\* the final re.sub of trailing & and ? changes nothing.
_normalize_amazon_link(raw_url, tag, head_ok) ==
    LET embedded == _extract_embedded_url(raw_url)
        url == IF HeadRaises(embedded, head_ok) THEN embedded ELSE FinalUrl(embedded)
    IN IF ~IsAmazonHost(url.host) THEN None
       ELSE Some([url EXCEPT !.qs = urlencode(SetTag(PopJunk(parse_qs(url.qs)), tag))])

\* a search link that leaves the tag out
_build_amazon_search_link_untagged(title_or_kw, tag) ==
    Url("https", <<"www", "amazon", "com">>, "/s", << <<"k", quote_plus(title_or_kw)>> >>)

_build_amazon_search_link(title_or_kw, tag) ==
    Url("https", <<"www", "amazon", "com">>, "/s",
        << <<"k", quote_plus(title_or_kw)>>, <<"tag", tag>> >>)

\* _extract_asin_from_url: the first /dp/<10 characters> of the URL
_extract_asin_from_url(url) ==
    CASE url.path = "/dp/B000000001" -> Some("B000000001")
      [] url.path = "/dp/B000000002" -> Some("B000000002")
      [] OTHER -> None

(***************************************************************************)
(* A scraped page: its a/button elements in document order, and the image  *)
(* that _extract_image_from_slickdeals finds in it (None when it finds     *)
(* none).  status "error" is a requests.get that raises.                   *)
(***************************************************************************)
Element(tagname, href, data_href, data_url) ==
    [tag |-> tagname, href |-> href, data_href |-> data_href, data_url |-> data_url]

\* "needle in href": in the host, or in the host of a URL embedded in the query
TextContains(url, needle) ==
    \/ HostContains(url.host, needle)
    \/ \E i \in 1..Len(url.qs) : HostContains(Unquote(url.qs[i][2]).host, needle)

AttrContains(attr, needle) == ~IsNone(attr) /\ TextContains(attr[1], needle)

\* soup.select_one(selector) for the four selectors of amazon_selectors, in order
SelectorMatches(n, el) ==
    CASE n = 1 -> el.tag = "a" /\ AttrContains(el.href, <<"amazon", "com">>)
      [] n = 2 -> el.tag = "a" /\ AttrContains(el.href, <<"amzn", "to">>)
      [] n = 3 -> el.tag = "a" /\ AttrContains(el.data_href, <<"amazon", "com">>)
      [] n = 4 -> el.tag = "button" /\ AttrContains(el.data_url, <<"amazon", "com">>)

select_one(elems, n) ==
    IF \E i \in 1..Len(elems) : SelectorMatches(n, elems[i])
    THEN Some(elems[CHOOSE i \in 1..Len(elems) :
                  /\ SelectorMatches(n, elems[i])
                  /\ \A j \in 1..(i - 1) : ~SelectorMatches(n, elems[j])])
    ELSE None

\* el.get('href') or el.get('data-href') or el.get('data-url')
AnyHref(el) ==
    IF ~IsNone(el.href) THEN el.href
    ELSE IF ~IsNone(el.data_href) THEN el.data_href
    ELSE el.data_url

RECURSIVE DirectHref(_, _)
\* lines 308-314: the first selector, from n on, that selects an element with a link
DirectHref(elems, n) ==
    IF n > 4 THEN None
    ELSE LET link_elem == select_one(elems, n)
         IN IF ~IsNone(link_elem) /\ ~IsNone(AnyHref(link_elem[1]))
            THEN AnyHref(link_elem[1])
            ELSE DirectHref(elems, n + 1)

LooksLikeAmazon(url) ==
    \/ TextContains(url, <<"amazon">>)
    \/ TextContains(url, <<"amzn">>)
    \/ TextContains(url, <<"skimresources">>)

RECURSIVE FallbackHrefKeepLast(_, _, _)
\* lines 317-326 as written: href is assigned for every element visited, and the
\* loop variable keeps its last value when no element makes the loop break
FallbackHrefKeepLast(elems, i, href) ==
    IF i > Len(elems) THEN href
    ELSE LET h == AnyHref(elems[i])
         IN IF ~IsNone(h) /\ LooksLikeAmazon(h[1]) THEN h
            ELSE FallbackHrefKeepLast(elems, i + 1, h)

FallbackHref(elems) == FallbackHrefKeepLast(elems, 1, None)

\* lines 298-326: the link _process_deal goes on with
FindHref(elems) ==
    IF ~IsNone(DirectHref(elems, 1)) THEN DirectHref(elems, 1) ELSE FallbackHref(elems)

Deal(title, amazon_link, image) ==
    [title |-> title, amazon_link |-> amazon_link, image |-> image]

OrElse(o, default) == IF IsNone(o) THEN default ELSE o[1]

\* lines 287-296: an exception reaches the handler of line 361 when the entry
\* has no link (AttributeError at line 289) or requests.get raises
RaisedInTry(entry) == IsNone(entry.link) \/ entry.page.status = "error"

\* line 362: the handler reads entry.link for its log line, which raises
\* AttributeError again when the entry has no link
HandlerRaises(entry) == IsNone(entry.link)

\* _process_deal(entry, tag) raises instead of returning
_process_deal_raises(entry) == RaisedInTry(entry) /\ HandlerRaises(entry)

\* _process_deal(entry, tag).  The entry carries what the network answers for it:
\* entry.page (requests.get of entry.link), entry.head_ok (the HEAD request of
\* the normalizer) and entry.amazon_image (_get_amazon_product_image).
\* The result, when the call returns, is None or Some(deal); an exception that the
\* handler of lines 361-362 gets through ends in None (line 364).
_process_deal(entry, tag) ==
    IF RaisedInTry(entry) THEN None
    ELSE LET img_url == entry.page.image
             href == FindHref(entry.page.elems)
         IN IF IsNone(href) THEN None
            ELSE LET clean == _normalize_amazon_link(href[1], tag, entry.head_ok)
                 IN IF ~IsNone(clean)
                    THEN LET asin == _extract_asin_from_url(clean[1])
                             img2 == IF IsNone(img_url) /\ ~IsNone(asin)
                                     THEN entry.amazon_image ELSE img_url
                         IN Some(Deal(<<entry.title>>, clean[1], OrElse(img2, PLACEHOLDER_IMG)))
                    ELSE Some(Deal(<<entry.title>>,
                                   _build_amazon_search_link(entry.title, tag),
                                   OrElse(img_url, PLACEHOLDER_IMG)))

(***************************************************************************)
(* get_amazon_affiliate_links                                              *)
(***************************************************************************)
\* s.lower() on the texts of this model
lower(s) ==
    CASE s = "Ring Doorbell Deal" -> "ring doorbell deal"
      [] s = "Smart RING $20" -> "smart ring $20"
      [] s = "Desk Lamp" -> "desk lamp"
      [] s = "Electronics Sale" -> "electronics sale"
      [] s = "Home Deal" -> "home deal"
      [] s = "Fashion Offer" -> "fashion offer"
      [] OTHER -> s

\* needle in hay, on the lower-case texts of this model
Substring(needle, hay) ==
    \/ needle = hay
    \/ <<needle, hay>> \in {<<"ring", "ring doorbell deal">>, <<"ring", "smart ring $20">>,
                            <<"lamp", "desk lamp">>, <<"electronics", "electronics sale">>,
                            <<"home", "home deal">>, <<"fashion", "fashion offer">>}

\* a filter that lets every entry through
TitleMatches_any(keyword, entry) == TRUE

\* line 389: keyword.lower() in entry.title.lower()
TitleMatches(keyword, entry) == Substring(lower(keyword), lower(entry.title))

RECURSIVE Filter(_, _)
Filter(entries, keyword) ==
    IF entries = <<>> THEN <<>>
    ELSE IF TitleMatches(keyword, Head(entries))
    THEN <<Head(entries)>> \o Filter(Tail(entries), keyword)
    ELSE Filter(Tail(entries), keyword)

\* lst[:n] for n >= 0
Prefix(lst, n) == SubSeq(lst, 1, IF n < Len(lst) THEN n ELSE Len(lst))

\* the filter without the slice [:max_results]
matching_entries_unsliced(entries, keyword, max_results) == Filter(entries, keyword)

\* lines 387-390
matching_entries(entries, keyword, max_results) == Prefix(Filter(entries, keyword), max_results)

\* _top_amazon_product(keyword, tag): None without RAINFOREST_KEY and when the
\* request fails, else the first search result of the service
_top_amazon_product(keyword, tag, rf) ==
    IF rf = "ok"
    THEN Some(Deal(<<"Top product">>,
                   Url("https", <<"www", "amazon", "com">>, "/dp/B000000009", << <<"tag", tag>> >>),
                   "https://m.media-amazon.com/images/I/top.jpg"))
    ELSE None

\* lines 406-421: the fallbacks and the return value
Fallbacks(collected, keyword, tag, rf) ==
    IF collected # <<>> THEN [deals |-> collected]
    ELSE IF ~IsNone(_top_amazon_product(keyword, tag, rf))
    THEN [deals |-> <<_top_amazon_product(keyword, tag, rf)[1]>>]
    ELSE [deals |-> <<Deal(<<"Amazon search for '", keyword, "'">>,
                           _build_amazon_search_link(keyword, tag),
                           PLACEHOLDER_IMG)>>]

RECURSIVE CollectIn(_, _, _)
\* lines 400-404: the deals of the workers, appended in the order they complete
CollectIn(order, taken, tag) ==
    IF order = <<>> THEN <<>>
    ELSE _process_deal(taken[Head(order)], tag) \o CollectIn(Tail(order), taken, tag)

\* get_amazon_affiliate_links(keyword, tag, max_results) on the feed entries the
\* RSS search answers, when the workers complete in the given order (a
\* permutation of the indices of the matching entries)
get_amazon_affiliate_links(keyword, tag, max_results, entries, order, rf) ==
    Fallbacks(CollectIn(order, matching_entries(entries, keyword, max_results), tag),
              keyword, tag, rf)

(***************************************************************************)
(* Inputs of the model                                                     *)
(***************************************************************************)
MaxFeed == 3
MaxElems == 2
MaxMaxResults == 2

Keywords == {"ring", "lamp"}
Tags == {DEFAULT_TAG, "other-21"}

AMAZON_URL ==
    Url("https", <<"www", "amazon", "com">>, "/dp/B000000001",
        << <<"ref", "sd">>, <<"tag", "old-20">>, <<"th", "1">>, <<"psc", "1">> >>)
SHORT_URL == Url("https", <<"amzn", "to">>, "/3abc", <<>>)
WRAPPED_URL ==
    Url("https", <<"slickdeals", "net">>, "/", << <<"pno", "7">>,
        <<"url", "https%3A%2F%2Fwww.amazon.com%2Fdp%2FB000000002%3Fref%3Dsd">> >>)
WRAPPED_OFFSITE_URL ==
    Url("https", <<"go", "skimresources", "com">>, "/",
        << <<"u", "https%3A%2F%2Fwww.walmart.com%2Fip%2F1">> >>)
LOOKALIKE_URL == Url("https", <<"www", "amazon", "com", "evil", "net">>, "/dp/B000000001", <<>>)
OFFSITE_URL == Url("https", <<"www", "walmart", "com">>, "/ip/1", <<>>)
RELATIVE_URL == Url("", <<>>, "/forums", <<>>)

Elements ==
    {Element("a", Some(u), None, None) :
        u \in {AMAZON_URL, SHORT_URL, WRAPPED_URL, WRAPPED_OFFSITE_URL, LOOKALIKE_URL,
               OFFSITE_URL, RELATIVE_URL}}
    \cup {Element("a", None, None, None),
          Element("a", Some(OFFSITE_URL), Some(AMAZON_URL), None),
          Element("button", None, None, Some(AMAZON_URL))}

SLICKDEALS_IMG == "https://static.slickdealscdn.com/attachment/1.jpg"
AMAZON_IMG == "https://m.media-amazon.com/images/I/1.jpg"

Page(status, image, elems) == [status |-> status, image |-> image, elems |-> elems]

Pages ==
    {Page("error", None, <<>>)}
    \cup {Page("ok", im, els) : im \in {None, Some(SLICKDEALS_IMG)},
                               els \in SeqsUpTo(Elements, MaxElems)}

ENTRY_LINK == "https://slickdeals.net/f/1"

Entry(title, page, head_ok, amazon_image) ==
    [title |-> title, link |-> Some(ENTRY_LINK), page |-> page, head_ok |-> head_ok,
     amazon_image |-> amazon_image]

\* an item of the feed that has a title and no link: there is no page to fetch
LinklessEntry(title) ==
    [title |-> title, link |-> None, page |-> Page("error", None, <<>>), head_ok |-> TRUE,
     amazon_image |-> None]

\* every entry of the model, for feeds of one entry
AllEntries ==
    {Entry(t, pg, h, ai) : t \in {"Ring Doorbell Deal", "Desk Lamp"}, pg \in Pages,
                           h \in BOOLEAN, ai \in {None, Some(AMAZON_IMG)}}

\* the entries of longer feeds: one of each kind of outcome of _process_deal
FeedEntries ==
    {Entry("Ring Doorbell Deal",
           Page("ok", Some(SLICKDEALS_IMG), <<Element("a", Some(AMAZON_URL), None, None)>>),
           TRUE, None),
     Entry("Smart RING $20",
           Page("ok", None, <<Element("a", Some(SHORT_URL), None, None)>>), TRUE, None),
     Entry("Ring Doorbell Deal", Page("error", None, <<>>), TRUE, None),
     Entry("Desk Lamp",
           Page("ok", None, <<Element("a", Some(OFFSITE_URL), None, None)>>), TRUE, None)}

\* feeds with an item without link, alone and after an entry that yields a deal
LinklessFeeds ==
    {<<LinklessEntry("Ring Doorbell Deal")>>,
     <<Entry("Ring Doorbell Deal",
             Page("ok", Some(SLICKDEALS_IMG), <<Element("a", Some(AMAZON_URL), None, None)>>),
             TRUE, None),
       LinklessEntry("Smart RING $20")>>}

Feeds == SeqsUpTo(FeedEntries, MaxFeed) \cup {<<e>> : e \in AllEntries} \cup LinklessFeeds

\* URLs given to _normalize_amazon_link on its own: a product page on a host the
\* normalizer accepts or refuses, with up to MaxQuery query parameters (junk,
\* an old tag, a repeated key, an encoded value, blank values)
MaxQuery == 2
QueryPairs == {<<"ref", "sd">>, <<"tag", "old-20">>, <<"th", "1">>, <<"th", "a%20b">>,
               <<"psc", "">>, <<"k", "">>}
NormalizeHosts == {<<"www", "amazon", "com">>, <<"www", "amazon", "co", "uk">>,
                   <<"www", "walmart", "com">>}
NormalizeUrls ==
    {Url("https", h, "/dp/B000000001", qs) : h \in NormalizeHosts, qs \in SeqsUpTo(QueryPairs, MaxQuery)}
NormalizeTags == Tags \cup {""}

(***************************************************************************)
(* State                                                                   *)
(***************************************************************************)
VARIABLES keyword, tag, max_results, entries, feed_raises, rainforest,
          pc, taken, futures, deals, order, result

pvars == <<keyword, tag, max_results, entries, feed_raises, rainforest,
           pc, taken, futures, deals, order, result>>

(***************************************************************************)
(* The server (app.py, main.py)                                            *)
(***************************************************************************)
VARIABLES program,                \* "app.py" or "main.py": the module that runs
          now, ticks,             \* the clock (seconds), and how often it advanced
          upstream,               \* keyword -> the feed the RSS search answers
          SEARCH_CACHE, TOP_DEALS_CACHE, TOP_DEALS_LAST_UPDATE, TOP_DEALS_LOCK,
          th,                     \* thread -> its position and locals
          requests,               \* number of HTTP requests received
          pipeline_runs,          \* number of calls of get_amazon_affiliate_links
          recomputed,             \* current_time of every refresh that was stored
          last_ok,                \* keyword -> the last 200 answer of /api/search
          response                \* the answer given by the last step, if it gave one

svars == <<program, now, ticks, upstream, SEARCH_CACHE, TOP_DEALS_CACHE,
           TOP_DEALS_LAST_UPDATE, TOP_DEALS_LOCK, th, requests, pipeline_runs,
           recomputed, last_ok, response>>

(***************************************************************************)
(* Calls of _normalize_amazon_link on its own                              *)
(***************************************************************************)
VARIABLES raw_url, tag1, tag2,    \* a URL and two tags
          npc,                    \* which calls have been made
          once,                   \* _normalize_amazon_link(raw_url, tag1)
          twice,                  \* _normalize_amazon_link(once, tag2)
          direct                  \* _normalize_amazon_link(raw_url, tag2)

nvars == <<raw_url, tag1, tag2, npc, once, twice, direct>>

(***************************************************************************)
(* The merge of update_top_deals_cache on its own                          *)
(***************************************************************************)
VARIABLES category_results,       \* what the three category runs did
          mpc,                    \* whether the merge has been made
          top_deals               \* the value made of them (lines 77-79)

mvars == <<category_results, mpc, top_deals>>

(***************************************************************************)
(* The lock of the search cache (app.py, line 28)                          *)
(***************************************************************************)
VARIABLES SEARCH_CACHE_LOCK       \* the thread inside "with SEARCH_CACHE_LOCK", if any

lvars == <<SEARCH_CACHE_LOCK>>

vars == <<pvars, svars, nvars, mvars, lvars>>

inputs == <<keyword, tag, max_results, entries, feed_raises, rainforest>>

(***************************************************************************)
(* Sorting and merging of update_top_deals_cache                           *)
(***************************************************************************)
\* x.get('relevance_score', 0)
relevance_score(d) == IF "relevance_score" \in DOMAIN d THEN d.relevance_score ELSE 0

RECURSIVE InsertDesc(_, _)
\* d goes after every element whose key is at least its own: the sort is stable
InsertDesc(sorted, d) ==
    IF sorted = <<>> THEN <<d>>
    ELSE IF relevance_score(Head(sorted)) >= relevance_score(d)
    THEN <<Head(sorted)>> \o InsertDesc(Tail(sorted), d)
    ELSE <<d>> \o sorted

RECURSIVE SortByRelevance(_)
\* all_deals.sort(key=lambda x: x.get('relevance_score', 0), reverse=True)
SortByRelevance(lst) ==
    IF lst = <<>> THEN <<>>
    ELSE InsertDesc(SortByRelevance(SubSeq(lst, 1, Len(lst) - 1)), lst[Len(lst)])

\* deal['category'] = category
WithCategory(d, category) ==
    [k \in DOMAIN d \cup {"category"} |-> IF k = "category" THEN category ELSE d[k]]

categories == <<"electronics", "home", "fashion">>

\* the outcome of a call of get_amazon_affiliate_links: a value, or an exception
Returned(value) == [raised |-> FALSE, value |-> value]
Raised == [raised |-> TRUE, value |-> [deals |-> <<>>]]

RECURSIVE all_deals(_, _)
\* lines 67-75: the deals of the categories whose future did not raise, in the
\* order of the categories, each tagged with its category
all_deals(outcomes, i) ==
    IF i > Len(categories) THEN <<>>
    ELSE (IF outcomes[i].raised THEN <<>>
          ELSE [j \in 1..Len(outcomes[i].value.deals) |->
                    WithCategory(outcomes[i].value.deals[j], categories[i])])
         \o all_deals(outcomes, i + 1)

\* the merge without the slice [:3]
TopDeals_unsliced(outcomes) == [deals |-> SortByRelevance(all_deals(outcomes, 1))]

\* lines 77-79: the value stored in TOP_DEALS_CACHE
TopDeals(outcomes) == [deals |-> Prefix(SortByRelevance(all_deals(outcomes, 1)), 3)]

CACHE_TIMEOUT == 3600
TOP_DEALS_UPDATE_INTERVAL == 300
\* line 135: time.sleep(60) after a cycle that raised
BACKOFF == 60

\* the comparison of line 55 with the interval taken for minutes
IsFresh_minutes(current_time, last_update) ==
    current_time - last_update < TOP_DEALS_UPDATE_INTERVAL \div 60

\* line 55: current_time - TOP_DEALS_LAST_UPDATE < TOP_DEALS_UPDATE_INTERVAL
IsFresh(current_time, last_update) == current_time - last_update < TOP_DEALS_UPDATE_INTERVAL

\* the block of line 54 entered without waiting for the lock
CanEnter_unlocked(lock) == TRUE

\* line 54: "with TOP_DEALS_LOCK" is entered only while no thread holds the lock
CanEnter(lock) == IsNone(lock)

\* the comparison of line 39 with the boundary included
NotExpired_inclusive(time, cache_time) == time - cache_time <= CACHE_TIMEOUT

\* line 39: datetime.now() - cache_time < timedelta(seconds=CACHE_TIMEOUT)
NotExpired(time, cache_time) == time - cache_time < CACHE_TIMEOUT

(***************************************************************************)
(* Inputs of the server model                                              *)
(***************************************************************************)
StartTime == 1000
MaxTicks == 2
MaxTopDealsRequests == 1
MaxSearchRequests == 2
\* the steps of the clock: around the refresh interval, around the time to live
AggregateTickSteps == {1, TOP_DEALS_UPDATE_INTERVAL - 1, TOP_DEALS_UPDATE_INTERVAL}
LoopTickSteps == {BACKOFF, TOP_DEALS_UPDATE_INTERVAL}
SearchTickSteps == {1, CACHE_TIMEOUT - 1, CACHE_TIMEOUT}

Threads == {"bg", "r1", "r2"}
Requesters == {"r1", "r2"}
SearchKeywords == {"ring", "lamp"}

GoodEntry(title, path) ==
    Entry(title,
          Page("ok", Some(SLICKDEALS_IMG),
               <<Element("a", Some(Url("https", <<"www", "amazon", "com">>, path, <<>>)),
                         None, None)>>),
          TRUE, None)

\* the feeds the RSS search may answer for a keyword
FeedsFor(kw) ==
    CASE kw = "ring" ->
            {<<>>, <<GoodEntry("Ring Doorbell Deal", "/dp/B000000001"),
                     GoodEntry("Smart RING $20", "/dp/B000000002")>>}
      [] kw = "lamp" -> {<<GoodEntry("Desk Lamp", "/dp/B000000002")>>}
      [] kw = "electronics" ->
            {<<GoodEntry("Electronics Sale", "/dp/B000000002")>>}
      [] kw = "home" -> {<<GoodEntry("Home Deal", "/dp/B000000001")>>}
      [] kw = "fashion" -> {<<>>}
      [] OTHER -> {<<>>}

\* the orders in which n workers may complete
Orders(n) == {o \in [1..n -> 1..n] : \A i, j \in 1..n : i # j => o[i] # o[j]}

\* what a call of get_amazon_affiliate_links(kw, max_results=n) may do when the
\* RSS search answers the given feed: raise (the feed cannot be read), or return.
\* key is "no_key" when RAINFOREST_KEY is not set.
PipelineOutcomes(kw, n, feed, key) ==
    {Raised} \cup
    {Returned(get_amazon_affiliate_links(kw, DEFAULT_TAG, n, feed, o, rf)) :
        o \in Orders(Len(matching_entries(feed, kw, n))),
        rf \in IF key = "no_key" THEN {"no_key"} ELSE {"fails", "ok"}}

\* the outcomes of the pipeline run of each category (max_results=3), tabulated
CategoryOutcomeTable ==
    [key \in {"no_key", "ok"} |->
        [i \in 1..Len(categories) |->
            UNION {PipelineOutcomes(categories[i], 3, feed, key) : feed \in FeedsFor(categories[i])}]]

CategoryOutcomes(i) == CategoryOutcomeTable[rainforest][i]

\* the outcomes of the pipeline run of a search (max_results=MAX_RESULTS), tabulated
SearchOutcomeTable ==
    [key \in {"no_key", "ok"} |->
        [kw \in SearchKeywords |->
            [feed \in FeedsFor(kw) |-> PipelineOutcomes(kw, MAX_RESULTS, feed, key)]]]

SearchOutcomes(kw) == SearchOutcomeTable[rainforest][kw][upstream[kw]]

\* runs: the calls of get_amazon_affiliate_links the thread's call of
\* update_top_deals_cache has made
IdleThread ==
    [pc |-> "idle", op |-> "", kw |-> "", current_time |-> 0, wake |-> 0, prev |-> None,
     result |-> <<>>, runs |-> 0]

\* an answer: the thread and the call (op, kw, the time it began), the HTTP status
\* and body, whether this call ran the pipeline, and for a search the last 200
\* answer for the keyword when the call began (prev) and whether that was still
\* the last one when this answer was given (consecutive)
Response(t, op, kw, began, status, body, ran, prev, consecutive) ==
    [thread |-> t, op |-> op, kw |-> kw, began |-> began, status |-> status, body |-> body,
     ran_pipeline |-> ran, prev |-> prev, consecutive |-> consecutive]

NoResponse == Response("", "", "", 0, 0, <<>>, FALSE, None, FALSE)

(***************************************************************************)
(* One call of get_amazon_affiliate_links, step by step                    *)
(***************************************************************************)
PipelineIdle ==
    /\ keyword = "ring"
    /\ tag = DEFAULT_TAG
    /\ max_results = MAX_RESULTS
    /\ entries = <<>>
    /\ feed_raises = FALSE
    /\ pc = "unused"
    /\ taken = <<>>
    /\ futures = <<>>
    /\ deals = <<>>
    /\ order = <<>>
    /\ result = [deals |-> <<>>]

ServerIdle ==
    /\ program = "unused"
    /\ now = StartTime
    /\ ticks = 0
    /\ upstream = [kw \in SearchKeywords |-> <<>>]
    /\ SEARCH_CACHE = [kw \in SearchKeywords |-> None]
    /\ TOP_DEALS_CACHE = <<>>
    /\ TOP_DEALS_LAST_UPDATE = 0
    /\ TOP_DEALS_LOCK = None
    /\ SEARCH_CACHE_LOCK = None
    /\ th = [t \in Threads |-> IdleThread]
    /\ requests = 0
    /\ pipeline_runs = 0
    /\ recomputed = <<>>
    /\ last_ok = [kw \in SearchKeywords |-> None]
    /\ response = NoResponse

MergeIdle ==
    /\ category_results = <<>>
    /\ mpc = "unused"
    /\ top_deals = [deals |-> <<>>]

NormalizeIdle ==
    /\ raw_url = Url("", <<>>, "", <<>>)
    /\ tag1 = DEFAULT_TAG
    /\ tag2 = DEFAULT_TAG
    /\ npc = "unused"
    /\ once = None
    /\ twice = None
    /\ direct = None

Init ==
    /\ keyword \in Keywords
    /\ tag \in Tags
    /\ max_results \in 1..MaxMaxResults
    /\ entries \in Feeds
    /\ feed_raises \in BOOLEAN
    /\ rainforest \in {"no_key", "fails", "ok"}
    /\ pc = "call"
    /\ taken = <<>>
    /\ futures = <<>>
    /\ deals = <<>>
    /\ order = <<>>
    /\ result = [deals |-> <<>>]
    /\ ServerIdle
    /\ NormalizeIdle
    /\ MergeIdle

\* lines 383-398: parse the feed, filter it, submit one worker per matching entry
Submit ==
    /\ pc = "call"
    /\ ~feed_raises
    /\ taken' = matching_entries(entries, keyword, max_results)
    /\ futures' = [i \in 1..Len(taken') |-> [state |-> "pending", deal |-> None, raised |-> FALSE]]
    /\ pc' = "as_completed"
    /\ UNCHANGED <<lvars, inputs, deals, order, result, svars, nvars, mvars>>

\* lines 383-390: feedparser.parse lets an error through, or an entry has no
\* title: the call raises
SubmitRaises ==
    /\ pc = "call"
    /\ feed_raises
    /\ pc' = "raised"
    /\ UNCHANGED <<lvars, inputs, taken, futures, deals, order, result, svars, nvars, mvars>>

\* a worker thread runs _process_deal to its end: it returns, or it raises
Worker(i) ==
    /\ pc \in {"as_completed", "shutdown"}
    /\ futures[i].state = "pending"
    /\ futures' = [futures EXCEPT ![i] =
                       IF _process_deal_raises(taken[i])
                       THEN [state |-> "done", deal |-> None, raised |-> TRUE]
                       ELSE [state |-> "done", deal |-> _process_deal(taken[i], tag),
                             raised |-> FALSE]]
    /\ UNCHANGED <<lvars, inputs, pc, taken, deals, order, result, svars, nvars, mvars>>

\* lines 400-404: as_completed yields a finished future; its deal, if any, is appended
Collect(i) ==
    /\ pc = "as_completed"
    /\ futures[i].state = "done"
    /\ ~futures[i].raised
    /\ futures' = [futures EXCEPT ![i].state = "collected"]
    /\ deals' = deals \o futures[i].deal
    /\ order' = Append(order, i)
    /\ UNCHANGED <<lvars, inputs, pc, taken, result, svars, nvars, mvars>>

\* line 401: as_completed yields a future whose worker raised; future.result()
\* raises it again and the with block of line 394 is left
CollectRaises(i) ==
    /\ pc = "as_completed"
    /\ futures[i].state = "done"
    /\ futures[i].raised
    /\ futures' = [futures EXCEPT ![i].state = "collected"]
    /\ order' = Append(order, i)
    /\ pc' = "shutdown"
    /\ UNCHANGED <<lvars, inputs, taken, deals, result, svars, nvars, mvars>>

\* line 394: the executor's exit waits for the workers that still run, then the
\* exception leaves get_amazon_affiliate_links
Propagate ==
    /\ pc = "shutdown"
    /\ \A i \in 1..Len(futures) : futures[i].state # "pending"
    /\ pc' = "raised"
    /\ UNCHANGED <<lvars, inputs, taken, futures, deals, order, result, svars, nvars, mvars>>

\* the loop left as soon as one future has been yielded
AllYielded_first(fs) == fs = <<>> \/ \E i \in 1..Len(fs) : fs[i].state = "collected"

\* line 400: the loop over as_completed(future_to_entry), which has no timeout,
\* ends when every future has been yielded
AllYielded(fs) == \A i \in 1..Len(fs) : fs[i].state = "collected"

\* lines 406-421: every future has been yielded; fall back if needed and return
Return ==
    /\ pc = "as_completed"
    /\ AllYielded(futures)
    /\ result' = Fallbacks(deals, keyword, tag, rainforest)
    /\ pc' = "done"
    /\ UNCHANGED <<lvars, inputs, taken, futures, deals, order, svars, nvars, mvars>>

Next ==
    \/ Submit
    \/ SubmitRaises
    \/ \E i \in 1..Len(futures) : Worker(i)
    \/ \E i \in 1..Len(futures) : Collect(i)
    \/ \E i \in 1..Len(futures) : CollectRaises(i)
    \/ Propagate
    \/ Return

Spec == Init /\ [][Next]_vars

(***************************************************************************)
(* _normalize_amazon_link on its own: on a URL, on its own result, and on   *)
(* the URL again with the second tag.  The HEAD request may succeed or fail.*)
(***************************************************************************)
NormalizeInit ==
    /\ PipelineIdle
    /\ rainforest = "no_key"
    /\ ServerIdle
    /\ MergeIdle
    /\ raw_url \in NormalizeUrls
    /\ tag1 \in NormalizeTags
    /\ tag2 \in NormalizeTags
    /\ npc = "start"
    /\ once = None
    /\ twice = None
    /\ direct = None

\* _normalize_amazon_link(raw_url, tag1) returns
NormalizeFirst ==
    /\ npc = "start"
    /\ \E head_ok \in BOOLEAN :
          /\ ~IsNone(_normalize_amazon_link(raw_url, tag1, head_ok))
          /\ once' = _normalize_amazon_link(raw_url, tag1, head_ok)
    /\ npc' = "first"
    /\ UNCHANGED <<lvars, pvars, svars, mvars, raw_url, tag1, tag2, twice, direct>>

\* _normalize_amazon_link(raw_url, tag1) raises ValueError
NormalizeRaises ==
    /\ npc = "start"
    /\ \E head_ok \in BOOLEAN : IsNone(_normalize_amazon_link(raw_url, tag1, head_ok))
    /\ npc' = "raised"
    /\ UNCHANGED <<lvars, pvars, svars, mvars, raw_url, tag1, tag2, once, twice, direct>>

\* the result is normalized again, with tag2
NormalizeSecond ==
    /\ npc = "first"
    /\ \E head_ok \in BOOLEAN : twice' = _normalize_amazon_link(once[1], tag2, head_ok)
    /\ npc' = "second"
    /\ UNCHANGED <<lvars, pvars, svars, mvars, raw_url, tag1, tag2, once, direct>>

\* the URL is normalized with tag2
NormalizeDirect ==
    /\ npc = "second"
    /\ \E head_ok \in BOOLEAN : direct' = _normalize_amazon_link(raw_url, tag2, head_ok)
    /\ npc' = "done"
    /\ UNCHANGED <<lvars, pvars, svars, mvars, raw_url, tag1, tag2, once, twice>>

NormalizeNext ==
    \/ NormalizeFirst
    \/ NormalizeRaises
    \/ NormalizeSecond
    \/ NormalizeDirect

NormalizeSpec == NormalizeInit /\ [][NormalizeNext]_vars

(***************************************************************************)
(* The merge of lines 67-79 on its own, on what three category runs may    *)
(* have done: raised, or returned the deals of a feed of up to             *)
(* MaxCategoryFeed matching entries.                                       *)
(***************************************************************************)
MaxCategoryFeed == 2

CategoryTitle(category) ==
    CASE category = "electronics" -> "Electronics Sale"
      [] category = "home" -> "Home Deal"
      [] OTHER -> "Fashion Offer"

\* the feeds of the merge: entries that yield a product deal, a search-link deal
\* (no link to the store on the page) or nothing (the page cannot be fetched)
MergeEntries(category) ==
    {GoodEntry(CategoryTitle(category), "/dp/B000000001"),
     Entry(CategoryTitle(category),
           Page("ok", None, <<Element("a", Some(OFFSITE_URL), None, None)>>), TRUE, None),
     Entry(CategoryTitle(category), Page("error", None, <<>>), TRUE, None)}

MergeOutcomes(category) ==
    UNION {PipelineOutcomes(category, 3, feed, "no_key") :
              feed \in SeqsUpTo(MergeEntries(category), MaxCategoryFeed)}

\* the same, tabulated by category
MergeOutcomeTable == [i \in 1..Len(categories) |-> MergeOutcomes(categories[i])]

MergeInit ==
    /\ PipelineIdle
    /\ rainforest = "no_key"
    /\ ServerIdle
    /\ NormalizeIdle
    /\ \E o1 \in MergeOutcomeTable[1], o2 \in MergeOutcomeTable[2], o3 \in MergeOutcomeTable[3] :
          category_results = <<o1, o2, o3>>
    /\ mpc = "start"
    /\ top_deals = [deals |-> <<>>]

\* lines 67-79
Merge ==
    /\ mpc = "start"
    /\ top_deals' = TopDeals(category_results)
    /\ mpc' = "merged"
    /\ UNCHANGED <<lvars, pvars, svars, nvars, category_results>>

MergeNext == Merge

MergeSpec == MergeInit /\ [][MergeNext]_vars

(***************************************************************************)
(* The server, step by step.  Threads r1 and r2 serve HTTP requests, thread *)
(* bg runs update_loop.  A thread inside "with TOP_DEALS_LOCK" holds the    *)
(* lock from the step that enters the block to the step that leaves it.     *)
(***************************************************************************)
ServerInit ==
    /\ PipelineIdle
    /\ NormalizeIdle
    /\ MergeIdle
    /\ rainforest = "no_key"
    /\ program \in {"app.py", "main.py"}
    /\ now = StartTime
    /\ ticks = 0
    /\ upstream \in [SearchKeywords -> UNION {FeedsFor(kw) : kw \in SearchKeywords}]
    /\ \A kw \in SearchKeywords : upstream[kw] \in FeedsFor(kw)
    /\ SEARCH_CACHE = [kw \in SearchKeywords |-> None]
    /\ TOP_DEALS_CACHE = <<>>
    /\ TOP_DEALS_LAST_UPDATE = 0
    /\ TOP_DEALS_LOCK = None
    /\ SEARCH_CACHE_LOCK = None
    /\ th = [t \in Threads |-> IdleThread]
    /\ requests = 0
    /\ pipeline_runs = 0
    /\ recomputed = <<>>
    /\ last_ok = [kw \in SearchKeywords |-> None]
    /\ response = NoResponse

\* time passes
Tick(steps) ==
    /\ ticks < MaxTicks
    /\ \E d \in steps : now' = now + d
    /\ ticks' = ticks + 1
    /\ UNCHANGED <<lvars, pvars, nvars, mvars, program, upstream, SEARCH_CACHE, TOP_DEALS_CACHE,
                   TOP_DEALS_LAST_UPDATE, TOP_DEALS_LOCK, th, requests, pipeline_runs,
                   recomputed, last_ok>>
    /\ response' = NoResponse

\* the thread leaves update_top_deals_cache: update_loop goes to sleep for one
\* interval (line 132), a request thread is done
AfterUpdate(t) ==
    IF t = "bg"
    THEN [IdleThread EXCEPT !.pc = "sleep", !.wake = now + TOP_DEALS_UPDATE_INTERVAL]
    ELSE IdleThread

\* update_loop without its try/except: the thread ends with the exception
AfterFailure_uncaught(t) == [IdleThread EXCEPT !.pc = "terminated"]

\* the thread after update_top_deals_cache raised: update_loop logs and sleeps
\* for the backoff (lines 133-135), a request thread has answered 500 (lines 122-124)
AfterFailure(t) ==
    IF t = "bg"
    THEN [IdleThread EXCEPT !.pc = "sleep", !.wake = now + BACKOFF]
    ELSE IdleThread

\* GET /api/top-deals: api_top_deals calls update_top_deals_cache, which reads
\* the clock (line 52) before it asks for the lock
TopDealsRequest(t) ==
    /\ t \in Requesters
    /\ th[t].pc = "idle"
    /\ requests' = requests + 1
    /\ th' = [th EXCEPT ![t] = [IdleThread EXCEPT !.pc = "wait_lock", !.op = "top",
                                                  !.current_time = now]]
    /\ UNCHANGED <<lvars, pvars, nvars, mvars, program, now, ticks, upstream, SEARCH_CACHE, TOP_DEALS_CACHE,
                   TOP_DEALS_LAST_UPDATE, TOP_DEALS_LOCK, pipeline_runs, recomputed,
                   last_ok>>
    /\ response' = NoResponse

\* GET /api/top-deals as the only request
TopDealsCall(t) == requests < MaxTopDealsRequests /\ TopDealsRequest(t)

\* update_loop: the first cycle, and every cycle after time.sleep has returned
BgCall ==
    /\ \/ th["bg"].pc = "idle"
       \/ th["bg"].pc = "sleep" /\ now >= th["bg"].wake
    /\ th' = [th EXCEPT !["bg"] = [IdleThread EXCEPT !.pc = "wait_lock", !.op = "top",
                                                     !.current_time = now]]
    /\ UNCHANGED <<lvars, pvars, nvars, mvars, program, now, ticks, upstream, SEARCH_CACHE, TOP_DEALS_CACHE,
                   TOP_DEALS_LAST_UPDATE, TOP_DEALS_LOCK, requests, pipeline_runs,
                   recomputed, last_ok>>
    /\ response' = NoResponse

\* lines 54-56: the lock is free, the cache is fresh: return it
ReturnCached(t) ==
    /\ th[t].pc = "wait_lock"
    /\ CanEnter(TOP_DEALS_LOCK)
    /\ IsFresh(th[t].current_time, TOP_DEALS_LAST_UPDATE)
    /\ th' = [th EXCEPT ![t] = AfterUpdate(t)]
    /\ response' = Response(t, "top", "", th[t].current_time, 200, TOP_DEALS_CACHE,
                            FALSE, None, FALSE)
    /\ UNCHANGED <<lvars, pvars, nvars, mvars, program, now, ticks, upstream, SEARCH_CACHE, TOP_DEALS_CACHE,
                   TOP_DEALS_LAST_UPDATE, TOP_DEALS_LOCK, requests, pipeline_runs,
                   recomputed, last_ok>>

\* a lock given back as soon as the freshness test of line 55 is made
LockWhileRefreshing_released(t) == None

\* lines 54-80: the with block goes on to line 81, the lock stays with the thread
LockWhileRefreshing(t) == Some(t)

\* lines 54-65: the lock is free, the cache is stale: keep the lock and submit
\* one pipeline run per category
BeginRefresh(t) ==
    /\ th[t].pc = "wait_lock"
    /\ CanEnter(TOP_DEALS_LOCK)
    /\ ~IsFresh(th[t].current_time, TOP_DEALS_LAST_UPDATE)
    /\ TOP_DEALS_LOCK' = LockWhileRefreshing(t)
    /\ pipeline_runs' = pipeline_runs + Len(categories)
    /\ th' = [th EXCEPT ![t].pc = "refreshing", ![t].runs = Len(categories)]
    /\ UNCHANGED <<lvars, pvars, nvars, mvars, program, now, ticks, upstream, SEARCH_CACHE, TOP_DEALS_CACHE,
                   TOP_DEALS_LAST_UPDATE, requests, recomputed, last_ok>>
    /\ response' = NoResponse

\* the pipeline runs made when executor.submit raises because a worker thread
\* cannot be started (lines 61-65): submit queues the work before it starts the
\* thread, and the executor's exit lets the threads that did start empty the
\* queue.  No thread at all: no run.  The second thread missing: the first one
\* makes both runs that were queued.  (The third thread missing: all three
\* runs are made, which is BeginRefresh followed by FailRefresh.)
FailedSubmitRuns == {0, 2}

\* lines 54-65: the lock is free, the cache is stale, and executor.submit raises
\* before every category has been submitted; the executor's exit waits for the
\* runs that were queued, with the lock still held
BeginRefreshRaises(t) ==
    /\ th[t].pc = "wait_lock"
    /\ CanEnter(TOP_DEALS_LOCK)
    /\ ~IsFresh(th[t].current_time, TOP_DEALS_LAST_UPDATE)
    /\ TOP_DEALS_LOCK' = LockWhileRefreshing(t)
    /\ \E n \in FailedSubmitRuns :
          /\ pipeline_runs' = pipeline_runs + n
          /\ th' = [th EXCEPT ![t].pc = "submit_raised", ![t].runs = n]
    /\ UNCHANGED <<lvars, pvars, nvars, mvars, program, now, ticks, upstream, SEARCH_CACHE, TOP_DEALS_CACHE,
                   TOP_DEALS_LAST_UPDATE, requests, recomputed, last_ok>>
    /\ response' = NoResponse

\* lines 67-81: the three futures are done; merge, store, release the lock, return
FinishRefresh(t) ==
    /\ th[t].pc = "refreshing"
    /\ \E o1 \in CategoryOutcomes(1), o2 \in CategoryOutcomes(2), o3 \in CategoryOutcomes(3) :
          /\ TOP_DEALS_CACHE' = TopDeals(<<o1, o2, o3>>)
          /\ response' = Response(t, "top", "", th[t].current_time, 200,
                                  TopDeals(<<o1, o2, o3>>), TRUE, None, FALSE)
    /\ TOP_DEALS_LAST_UPDATE' = th[t].current_time
    /\ TOP_DEALS_LOCK' = None
    /\ th' = [th EXCEPT ![t] = AfterUpdate(t)]
    /\ recomputed' = Append(recomputed, th[t].current_time)
    /\ UNCHANGED <<lvars, pvars, nvars, mvars, program, now, ticks, upstream, SEARCH_CACHE, requests,
                   pipeline_runs, last_ok>>

\* a lock taken with acquire() and given back only on the normal path
LockAfterRaise_kept(t) == Some(t)

\* line 54: an exception leaves the with block, which releases the lock
LockAfterRaise(t) == None

\* lines 58-79 raise outside the try of lines 68-75 (the executor cannot start a
\* thread, the sort meets keys it cannot compare): the with block releases the
\* lock, nothing is stored, and the exception reaches the caller; the call ran
\* the pipeline unless the executor could not start its first thread
FailRefresh(t) ==
    /\ th[t].pc \in {"refreshing", "submit_raised"}
    /\ TOP_DEALS_LOCK' = LockAfterRaise(t)
    /\ th' = [th EXCEPT ![t] = AfterFailure(t)]
    /\ response' = IF t = "bg" THEN NoResponse
                   ELSE Response(t, "top", "", th[t].current_time, 500, <<>>, th[t].runs > 0,
                                 None, FALSE)
    /\ UNCHANGED <<lvars, pvars, nvars, mvars, program, now, ticks, upstream, SEARCH_CACHE, TOP_DEALS_CACHE,
                   TOP_DEALS_LAST_UPDATE, requests, pipeline_runs, recomputed, last_ok>>

\* the 200 answer of /api/search, as remembered in last_ok: the body, and the
\* time at which the pipeline run that made it returned
Answer(body, cache_time) == [body |-> body, cache_time |-> cache_time]

\* app.py, lines 34-42: get_cached_search
get_cached_search(kw) ==
    IF ~IsNone(SEARCH_CACHE[kw]) /\ NotExpired(now, SEARCH_CACHE[kw][1].cache_time)
    THEN Some(SEARCH_CACHE[kw][1].result)
    ELSE None

\* main.py, lines 86-94: GET /api/search?q=kw; there is no cache and no lock, the
\* pipeline is called
SearchMiss(t, kw) ==
    /\ program = "main.py"
    /\ t \in Requesters
    /\ th[t].pc = "idle"
    /\ requests < MaxSearchRequests
    /\ requests' = requests + 1
    /\ pipeline_runs' = pipeline_runs + 1
    /\ th' = [th EXCEPT ![t] = [IdleThread EXCEPT !.pc = "pipeline", !.op = "search",
                                    !.kw = kw, !.current_time = now, !.prev = last_ok[kw]]]
    /\ UNCHANGED <<lvars, pvars, nvars, mvars, program, now, ticks, upstream, SEARCH_CACHE,
                   TOP_DEALS_CACHE, TOP_DEALS_LAST_UPDATE, TOP_DEALS_LOCK, recomputed, last_ok>>
    /\ response' = NoResponse

\* main.py, lines 94-96: the pipeline returns and the result is sent, or it
\* raises and the answer is 500
SearchFinish(t) ==
    /\ program = "main.py"
    /\ th[t].pc = "pipeline"
    /\ \E o \in SearchOutcomes(th[t].kw) :
          IF o.raised
          THEN /\ response' = Response(t, "search", th[t].kw, th[t].current_time, 500, <<>>,
                                       TRUE, th[t].prev, FALSE)
               /\ UNCHANGED last_ok
          ELSE /\ response' = Response(t, "search", th[t].kw, th[t].current_time, 200, o.value,
                                       TRUE, th[t].prev, last_ok[th[t].kw] = th[t].prev)
               /\ last_ok' = [last_ok EXCEPT ![th[t].kw] = Some(Answer(o.value, now))]
    /\ th' = [th EXCEPT ![t] = IdleThread]
    /\ UNCHANGED <<lvars, pvars, nvars, mvars, program, now, ticks, upstream, SEARCH_CACHE,
                   TOP_DEALS_CACHE, TOP_DEALS_LAST_UPDATE, TOP_DEALS_LOCK, requests,
                   pipeline_runs, recomputed>>

\* the top-deals cache alone: update_loop and GET /api/top-deals
AggregateNext ==
    \/ Tick(AggregateTickSteps)
    \/ BgCall
    \/ \E t \in Requesters : TopDealsCall(t)
    \/ \E t \in Threads : ReturnCached(t)
    \/ \E t \in Threads : BeginRefresh(t)
    \/ \E t \in Threads : FinishRefresh(t)

\* update_top_deals_cache and update_loop are the same text in app.py and main.py
AggregateInit == ServerInit /\ program = "app.py"

AggregateSpec == AggregateInit /\ [][AggregateNext]_vars

\* the refresh loop with cycles that raise
LoopNext ==
    \/ Tick(LoopTickSteps)
    \/ BgCall
    \/ \E t \in Requesters : TopDealsCall(t)
    \/ \E t \in Threads : ReturnCached(t)
    \/ \E t \in Threads : BeginRefresh(t)
    \/ \E t \in Threads : FinishRefresh(t)
    \/ \E t \in Threads : BeginRefreshRaises(t)
    \/ \E t \in Threads : FailRefresh(t)

\* no keyword search is made in this specification: the feed of the keyword
\* searches, which only api_search reads, is held at one of its values
LoopInit == AggregateInit /\ upstream["ring"] = <<>>

LoopSpec == LoopInit /\ [][LoopNext]_vars

(***************************************************************************)
(* app.py with its two locks, step by step.  A thread inside               *)
(* "with SEARCH_CACHE_LOCK" holds that lock from the step that enters the  *)
(* block to the step that leaves it.                                       *)
(***************************************************************************)
\* the clock steps of ConcurrentSpec
ConcurrentTickSteps == {CACHE_TIMEOUT}

\* a lock kept from get_cached_search until set_cached_search
LockAfterLookup_held(t) == Some(t)

\* app.py, lines 36-42: the with block of get_cached_search ends, the lock is free
LockAfterLookup(t) == None

\* app.py, lines 89-99: GET /api/search?q=kw arrives and calls get_cached_search
SearchCall(t, kw) ==
    /\ program = "app.py"
    /\ t \in Requesters
    /\ th[t].pc = "idle"
    /\ requests < MaxSearchRequests
    /\ requests' = requests + 1
    /\ th' = [th EXCEPT ![t] = [IdleThread EXCEPT !.pc = "wait_lookup", !.op = "search",
                                    !.kw = kw, !.current_time = now, !.prev = last_ok[kw]]]
    /\ UNCHANGED <<lvars, pvars, nvars, mvars, program, now, ticks, upstream, SEARCH_CACHE,
                   TOP_DEALS_CACHE, TOP_DEALS_LAST_UPDATE, TOP_DEALS_LOCK, pipeline_runs,
                   recomputed, last_ok>>
    /\ response' = NoResponse

\* app.py, line 36: get_cached_search enters "with SEARCH_CACHE_LOCK"
LookupEnter(t) ==
    /\ th[t].pc = "wait_lookup"
    /\ CanEnter(SEARCH_CACHE_LOCK)
    /\ SEARCH_CACHE_LOCK' = Some(t)
    /\ th' = [th EXCEPT ![t].pc = "in_lookup"]
    /\ UNCHANGED <<pvars, nvars, mvars, program, now, ticks, upstream, SEARCH_CACHE,
                   TOP_DEALS_CACHE, TOP_DEALS_LAST_UPDATE, TOP_DEALS_LOCK, requests,
                   pipeline_runs, recomputed, last_ok>>
    /\ response' = NoResponse

\* app.py, lines 37-42 and 100-105: the lookup is made and the block is left.  A
\* hit is answered (lines 100-102); on a miss, after deleting an expired entry
\* (line 41), the pipeline is called (line 105)
LookupLeave(t) ==
    /\ th[t].pc = "in_lookup"
    /\ SEARCH_CACHE_LOCK' = LockAfterLookup(t)
    /\ IF ~IsNone(get_cached_search(th[t].kw))
       THEN /\ response' = Response(t, "search", th[t].kw, th[t].current_time, 200,
                                    get_cached_search(th[t].kw)[1], FALSE, th[t].prev,
                                    last_ok[th[t].kw] = th[t].prev)
            /\ last_ok' = [last_ok EXCEPT ![th[t].kw] =
                               Some(Answer(get_cached_search(th[t].kw)[1],
                                           SEARCH_CACHE[th[t].kw][1].cache_time))]
            /\ th' = [th EXCEPT ![t] = IdleThread]
            /\ UNCHANGED <<SEARCH_CACHE, pipeline_runs>>
       ELSE /\ SEARCH_CACHE' = [SEARCH_CACHE EXCEPT ![th[t].kw] = None]
            /\ pipeline_runs' = pipeline_runs + 1
            /\ th' = [th EXCEPT ![t].pc = "pipeline"]
            /\ response' = NoResponse
            /\ UNCHANGED last_ok
    /\ UNCHANGED <<pvars, nvars, mvars, program, now, ticks, upstream, TOP_DEALS_CACHE,
                   TOP_DEALS_LAST_UPDATE, TOP_DEALS_LOCK, requests, recomputed>>

\* app.py, lines 105-108 and 112-114: the pipeline returns and set_cached_search
\* is called, or the pipeline raises and the answer is 500
PipelineReturn(t) ==
    /\ program = "app.py"
    /\ th[t].pc = "pipeline"
    /\ \E o \in SearchOutcomes(th[t].kw) :
          IF o.raised
          THEN /\ response' = Response(t, "search", th[t].kw, th[t].current_time, 500, <<>>,
                                       TRUE, th[t].prev, FALSE)
               /\ th' = [th EXCEPT ![t] = IdleThread]
          ELSE /\ response' = NoResponse
               /\ th' = [th EXCEPT ![t].pc = "wait_store", ![t].result = o.value]
    /\ UNCHANGED <<lvars, pvars, nvars, mvars, program, now, ticks, upstream, SEARCH_CACHE,
                   TOP_DEALS_CACHE, TOP_DEALS_LAST_UPDATE, TOP_DEALS_LOCK, requests,
                   pipeline_runs, recomputed, last_ok>>

\* app.py, line 46: set_cached_search enters "with SEARCH_CACHE_LOCK"
StoreEnter(t) ==
    /\ th[t].pc = "wait_store"
    /\ CanEnter(SEARCH_CACHE_LOCK)
    /\ SEARCH_CACHE_LOCK' = Some(t)
    /\ th' = [th EXCEPT ![t].pc = "in_store"]
    /\ UNCHANGED <<pvars, nvars, mvars, program, now, ticks, upstream, SEARCH_CACHE,
                   TOP_DEALS_CACHE, TOP_DEALS_LAST_UPDATE, TOP_DEALS_LOCK, requests,
                   pipeline_runs, recomputed, last_ok>>
    /\ response' = NoResponse

\* app.py, lines 47 and 110-111: the result is stored with the time of the store,
\* the block is left, and the result is sent
StoreLeave(t) ==
    /\ th[t].pc = "in_store"
    /\ SEARCH_CACHE' = [SEARCH_CACHE EXCEPT ![th[t].kw] =
                            Some([cache_time |-> now, result |-> th[t].result])]
    /\ SEARCH_CACHE_LOCK' = None
    /\ response' = Response(t, "search", th[t].kw, th[t].current_time, 200, th[t].result,
                            TRUE, th[t].prev, last_ok[th[t].kw] = th[t].prev)
    /\ last_ok' = [last_ok EXCEPT ![th[t].kw] = Some(Answer(th[t].result, now))]
    /\ th' = [th EXCEPT ![t] = IdleThread]
    /\ UNCHANGED <<pvars, nvars, mvars, program, now, ticks, upstream, TOP_DEALS_CACHE,
                   TOP_DEALS_LAST_UPDATE, TOP_DEALS_LOCK, requests, pipeline_runs, recomputed>>

\* GET /api/top-deals as one of the requests of ConcurrentSpec
ConcurrentTopDealsCall(t) == requests < MaxSearchRequests /\ TopDealsRequest(t)

\* GET /api/search and GET /api/top-deals served by two threads of app.py
ConcurrentNext ==
    \/ Tick(ConcurrentTickSteps)
    \/ \E t \in Requesters, kw \in SearchKeywords : SearchCall(t, kw)
    \/ \E t \in Requesters : LookupEnter(t)
    \/ \E t \in Requesters : LookupLeave(t)
    \/ \E t \in Requesters : PipelineReturn(t)
    \/ \E t \in Requesters : StoreEnter(t)
    \/ \E t \in Requesters : StoreLeave(t)
    \/ \E t \in Requesters : ConcurrentTopDealsCall(t)
    \/ \E t \in Requesters : ReturnCached(t)
    \/ \E t \in Requesters : BeginRefresh(t)
    \/ \E t \in Requesters : FinishRefresh(t)

ConcurrentSpec == AggregateInit /\ [][ConcurrentNext]_vars

\* the search route alone, GET /api/search: of app.py with its cache and lock,
\* of main.py without them
SearchNext ==
    \/ Tick(SearchTickSteps)
    \/ \E t \in Requesters, kw \in SearchKeywords : SearchCall(t, kw)
    \/ \E t \in Requesters : LookupEnter(t)
    \/ \E t \in Requesters : LookupLeave(t)
    \/ \E t \in Requesters : PipelineReturn(t)
    \/ \E t \in Requesters : StoreEnter(t)
    \/ \E t \in Requesters : StoreLeave(t)
    \/ \E t \in Requesters, kw \in SearchKeywords : SearchMiss(t, kw)
    \/ \E t \in Requesters : SearchFinish(t)

SearchSpec == ServerInit /\ [][SearchNext]_vars

\* app.py with both locks, update_loop, and refreshes that raise
LiveNext ==
    \/ BgCall
    \/ \E t \in Requesters, kw \in SearchKeywords : SearchCall(t, kw)
    \/ \E t \in Requesters : LookupEnter(t)
    \/ \E t \in Requesters : LookupLeave(t)
    \/ \E t \in Requesters : PipelineReturn(t)
    \/ \E t \in Requesters : StoreEnter(t)
    \/ \E t \in Requesters : StoreLeave(t)
    \/ \E t \in Requesters : ConcurrentTopDealsCall(t)
    \/ \E t \in Threads : ReturnCached(t)
    \/ \E t \in Threads : BeginRefresh(t)
    \/ \E t \in Threads : FinishRefresh(t)
    \/ \E t \in Threads : BeginRefreshRaises(t)
    \/ \E t \in Threads : FailRefresh(t)

\* a thread that can take a lock takes it, a thread inside a block leaves it,
\* and a refresh ends, by returning or by raising (its pipeline runs end)
LiveFairness ==
    /\ \A t \in Requesters :
          /\ WF_vars(LookupEnter(t) \/ StoreEnter(t))
          /\ WF_vars(LookupLeave(t) \/ StoreLeave(t))
    /\ \A t \in Threads :
          /\ WF_vars(ReturnCached(t) \/ BeginRefresh(t))
          /\ WF_vars(FailRefresh(t) \/ FinishRefresh(t))

LiveSpec == AggregateInit /\ [][LiveNext]_vars /\ LiveFairness

(***************************************************************************)
(* Properties of one pipeline run                                          *)
(***************************************************************************)
\* the price of a deal, 0 standing for unknown
PriceOf(d) == IF "price" \in DOMAIN d THEN d.price ELSE 0
HasRealImage(d) == d.image # PLACEHOLDER_IMG

\* the host is www.amazon.com / amazon.com or one of the short-link hosts
OnTargetDomain(host) ==
    /\ Len(host) >= 2
    /\ <<host[Len(host) - 1], host[Len(host)]>> \in
           {<<"amazon", "com">>, <<"amzn", "to">>, <<"a", "co">>}

\* C1: a finished run returns at least one deal and at most max_results deals.
C1_DealsBounded ==
    pc = "done" => (Len(result.deals) >= 1 /\ Len(result.deals) <= max_results)

\* a run that cut the matching entries down to max_results and lost one to a rejection
C1_Witness ==
    /\ pc = "done"
    /\ Len(Filter(entries, keyword)) > max_results
    /\ max_results = 2
    /\ Len(deals) = 1
    /\ Len(result.deals) = 1

IsSearchFallback(d) ==
    /\ d.title = <<"Amazon search for '", keyword, "'">>
    /\ relevance_score(d) = 0
    /\ PriceOf(d) = 0
    /\ d.image = PLACEHOLDER_IMG
    /\ d.amazon_link.scheme = "https"
    /\ d.amazon_link.host = <<"www", "amazon", "com">>
    /\ d.amazon_link.path = "/s"
    /\ d.amazon_link.qs = << <<"k", quote_plus(keyword)>>, <<"tag", tag>> >>

\* C2 as claimed: a run that collected no deal returns exactly the search deal for
\* the keyword (relevance 0, price 0, placeholder image, tagged search link).
C2_AlwaysSearchFallback ==
    (pc = "done" /\ deals = <<>>) =>
        (Len(result.deals) = 1 /\ IsSearchFallback(result.deals[1]))

\* C2 amended: a run that collected no deal, and whose secondary product lookup
\* gave nothing (no credential, or the lookup failed), returns exactly the search
\* deal for the keyword; the deal has a title, a link and an image and nothing else.
C2_SearchFallback ==
    (pc = "done" /\ deals = <<>> /\ rainforest # "ok") =>
        /\ Len(result.deals) = 1
        /\ IsSearchFallback(result.deals[1])
        /\ DOMAIN result.deals[1] = {"title", "amazon_link", "image"}

\* every taken entry was rejected, there is no credential, the search deal is returned
C2_Witness ==
    /\ pc = "done"
    /\ Len(taken) >= 1
    /\ deals = <<>>
    /\ rainforest = "no_key"
    /\ result.deals[1].title = <<"Amazon search for '", keyword, "'">>

\* C6: every deal of a returned result links to a host of the target domain.
C6_LinksOnTargetDomain ==
    pc = "done" =>
        \A i \in 1..Len(result.deals) : OnTargetDomain(result.deals[i].amazon_link.host)

PointsAtTarget(url) ==
    OnTargetDomain(url.host) \/ \E h \in REDIRECT_HOSTS : HostContains(url.host, h)

NoTargetLink(page) ==
    /\ page.status = "ok"
    /\ \A i \in 1..Len(page.elems) :
          \A attr \in {page.elems[i].href, page.elems[i].data_href, page.elems[i].data_url} :
              ~IsNone(attr) => ~PointsAtTarget(attr[1])

\* C7: an entry whose page has no link to the target domain, its short-link
\* domain or a redirect wrapper in any a/button element yields no deal.
C7_NoLinkRejected ==
    \A i \in 1..Len(futures) :
        (futures[i].state # "pending" /\ NoTargetLink(taken[i].page)) => IsNone(futures[i].deal)

\* C8: the returned deals are ranked: relevance descending, then a real image
\* before the placeholder, then price descending.
C8_Sorted ==
    pc = "done" =>
        \A i \in 1..(Len(result.deals) - 1) :
            LET a == result.deals[i]
                b == result.deals[i + 1]
            IN \/ relevance_score(a) > relevance_score(b)
               \/ /\ relevance_score(a) = relevance_score(b)
                  /\ \/ (HasRealImage(a) /\ ~HasRealImage(b))
                     \/ /\ HasRealImage(a) = HasRealImage(b)
                        /\ PriceOf(a) >= PriceOf(b)

\* C9: the result of a run does not depend on the order in which the workers
\* complete: it is the result of the run whose workers complete in feed order.
C9_OrderIrrelevant ==
    pc = "done" =>
        result = get_amazon_affiliate_links(keyword, tag, max_results, entries,
                                            [i \in 1..Len(taken) |-> i], rainforest)

\* the query string holds the tag parameter exactly once, with the given tag
TaggedOnce(qs, t) ==
    /\ Cardinality({i \in 1..Len(qs) : qs[i][1] = "tag"}) = 1
    /\ \A i \in 1..Len(qs) : qs[i][1] = "tag" => qs[i][2] = t

\* the query string is not empty and none of its parameters is blank: written
\* out, the URL ends with a value, not with '&' or '?'
NoTrailingSeparator(qs) ==
    /\ qs # <<>>
    /\ \A i \in 1..Len(qs) : qs[i][1] # "" /\ qs[i][2] # ""

\* C13: every link of a returned deal carries the tag parameter exactly once,
\* with the tag of the call; it has none of the parameters ascsubtag, ref, psc,
\* crid, qid, sr and does not end with '&' or '?'.
C13_LinksTaggedOnce ==
    pc = "done" =>
        \A i \in 1..Len(result.deals) :
            LET qs == result.deals[i].amazon_link.qs
            IN /\ TaggedOnce(qs, tag)
               /\ \A j \in 1..Len(qs) :
                     qs[j][1] \notin {"ascsubtag", "ref", "psc", "crid", "qid", "sr"}
               /\ NoTrailingSeparator(qs)

\* a product link that came with another tag, ref and psc is returned with the
\* tag of the call in the old tag's place
C13_Witness ==
    /\ pc = "done"
    /\ tag = "other-21"
    /\ Len(taken) = 1
    /\ FindHref(taken[1].page.elems) = Some(AMAZON_URL)
    /\ Len(result.deals) = 1
    /\ result.deals[1].amazon_link.qs = << <<"tag", "other-21">>, <<"th", "1">> >>

\* C14: no worker raises, and a call of get_amazon_affiliate_links raises only
\* when the feed itself cannot be read, never because of one entry.
C14_EnricherNeverRaises ==
    /\ \A i \in 1..Len(futures) : ~futures[i].raised
    /\ pc \in {"shutdown", "raised"} => feed_raises

\* the worker found a link on the entry's page and _normalize_amazon_link
\* raised ValueError for it
NormalizationFailed(entry) ==
    /\ ~RaisedInTry(entry)
    /\ ~IsNone(FindHref(entry.page.elems))
    /\ IsNone(_normalize_amazon_link(FindHref(entry.page.elems)[1], tag, entry.head_ok))

\* C15: an entry whose discovered link fails normalization (host not on the
\* target domain) yields no deal, and its worker does not raise.
C15_NormalizationFailureRejected ==
    \A i \in 1..Len(futures) :
        (futures[i].state # "pending" /\ NormalizationFailed(taken[i])) =>
            (IsNone(futures[i].deal) /\ ~futures[i].raised)

\* C16: when a run returns, every taken entry has one future, every future has
\* been run and yielded, each exactly once, and the deals collected are the
\* deals of the workers that returned one, in the order of completion.
C16_AllWorkersCollected ==
    pc = "done" =>
        /\ Len(futures) = Len(taken)
        /\ \A i \in 1..Len(futures) : futures[i].state = "collected"
        /\ Len(order) = Len(taken)
        /\ \A i \in 1..Len(taken) : Cardinality({j \in 1..Len(order) : order[j] = i}) = 1
        /\ deals = CollectIn(order, taken, tag)

\* a run of two workers that completed in reverse order, one of them rejected
C16_Witness ==
    /\ pc = "done"
    /\ Len(taken) = 2
    /\ order = <<2, 1>>
    /\ Len(deals) = 1
    /\ result.deals = deals

(***************************************************************************)
(* Properties of the server                                                *)
(***************************************************************************)
\* C3: a 200 answer to a search whose keyword was answered before, no other
\* answer for the keyword in between, the earlier result less than
\* CACHE_TIMEOUT old when the search began, repeats the earlier body and does not
\* run the pipeline; an answer that ran the pipeline leaves its result in
\* SEARCH_CACHE under the keyword.
C3_SecondServedFromCache ==
    (response.op = "search" /\ response.status = 200) =>
        /\ (/\ ~IsNone(response.prev)
            /\ response.consecutive
            /\ response.began - response.prev[1].cache_time < CACHE_TIMEOUT)
           => (response.body = response.prev[1].body /\ ~response.ran_pipeline)
        /\ response.ran_pipeline =>
               SEARCH_CACHE[response.kw] = Some([cache_time |-> now, result |-> response.body])

\* a second search for the keyword is answered within the time to live
C3_Witness ==
    /\ response.op = "search"
    /\ response.status = 200
    /\ ~IsNone(response.prev)
    /\ response.consecutive
    /\ response.began - response.prev[1].cache_time = CACHE_TIMEOUT - 1
    /\ Len(response.body.deals) = 2

\* C4: once a refresh has been stored, a call of update_top_deals_cache whose
\* current_time is less than one interval after TOP_DEALS_LAST_UPDATE returns
\* the cached value, changes neither the value nor TOP_DEALS_LAST_UPDATE and
\* runs no pipeline.
C4_FreshCallChangesNothing ==
    [][\A t \in Threads :
          (/\ th[t].pc = "wait_lock"
           /\ th'[t].pc # "wait_lock"
           /\ recomputed # <<>>
           /\ th[t].current_time - TOP_DEALS_LAST_UPDATE < TOP_DEALS_UPDATE_INTERVAL)
          => /\ TOP_DEALS_CACHE' = TOP_DEALS_CACHE
             /\ TOP_DEALS_LAST_UPDATE' = TOP_DEALS_LAST_UPDATE
             /\ pipeline_runs' = pipeline_runs
             /\ response'.thread = t
             /\ response'.status = 200
             /\ response'.body = TOP_DEALS_CACHE]_vars

\* a call made one second after the refresh that filled the cache is answered
\* from the cache
C4_Witness ==
    /\ response.op = "top"
    /\ ~response.ran_pipeline
    /\ recomputed # <<>>
    /\ response.began = TOP_DEALS_LAST_UPDATE + 1
    /\ response.body = TOP_DEALS_CACHE
    /\ Len(TOP_DEALS_CACHE.deals) >= 1

\* C5: the current_time of any two refreshes that were computed and stored are
\* at least one interval apart, whatever the interleaving of update_loop and
\* the request threads.
C5_RecomputationsApart ==
    \A i, j \in 1..Len(recomputed) :
        i < j => recomputed[j] - recomputed[i] >= TOP_DEALS_UPDATE_INTERVAL

\* two refreshes were stored, and a call that began at the same time as the
\* second one was answered from the cache
C5_Witness ==
    /\ Len(recomputed) = 2
    /\ response.op = "top"
    /\ ~response.ran_pipeline
    /\ response.began = recomputed[2]

\* C10: every value update_top_deals_cache returns is a mapping with a 'deals'
\* list of at least one deal.
C10_AggregateNonEmpty ==
    response.op = "top" =>
        ("deals" \in DOMAIN response.body /\ Len(response.body.deals) >= 1)

\* the step in which thread t makes its lookup and leaves get_cached_search
LookupMade(t) == th[t].pc = "in_lookup" /\ th'[t].pc # "in_lookup"

\* C11: a lookup of get_cached_search that finds an entry for its keyword is
\* answered with the stored result, without a pipeline run and with the cache
\* unchanged, when the entry's age at the lookup is less than CACHE_TIMEOUT;
\* otherwise the entry is removed and the request goes on to a pipeline run.
C11_ExpiresAtTimeout ==
    [][\A t \in Requesters :
          (LookupMade(t) /\ ~IsNone(SEARCH_CACHE[th[t].kw])) =>
              IF now - SEARCH_CACHE[th[t].kw][1].cache_time < CACHE_TIMEOUT
              THEN /\ response'.thread = t
                   /\ response'.status = 200
                   /\ response'.body = SEARCH_CACHE[th[t].kw][1].result
                   /\ ~response'.ran_pipeline
                   /\ pipeline_runs' = pipeline_runs
                   /\ SEARCH_CACHE' = SEARCH_CACHE
              ELSE /\ IsNone(SEARCH_CACHE'[th[t].kw])
                   /\ response' = NoResponse
                   /\ pipeline_runs' = pipeline_runs + 1
                   /\ th'[t].pc = "pipeline" /\ th'[t].kw = th[t].kw]_vars

\* a search found an entry exactly CACHE_TIMEOUT old (no time has passed since
\* the request arrived): the entry is gone and the pipeline is running
C11_Witness ==
    \E t \in Requesters :
        /\ program = "app.py"
        /\ th[t].pc = "pipeline"
        /\ now = th[t].current_time
        /\ ~IsNone(th[t].prev)
        /\ th[t].current_time - th[t].prev[1].cache_time = CACHE_TIMEOUT
        /\ IsNone(SEARCH_CACHE[th[t].kw])

(***************************************************************************)
(* Properties of the normalizer                                            *)
(***************************************************************************)
RoundTrip ==
    /\ twice = direct
    /\ tag1 = tag2 => twice = once

\* C12 as claimed: for every accepted URL and all tags tag1, tag2, normalizing
\* the result of a normalization with tag2 gives what normalizing the URL with
\* tag2 gives, and with tag1 = tag2 it gives its input back.
C12_NormalizeTwice == npc = "done" => RoundTrip

\* C12 amended: the same, for a first tag that is not the empty text.
C12_NormalizeTwiceTagged == (npc = "done" /\ tag1 # "") => RoundTrip

\* a URL with an old tag before an encoded value went through both calls with
\* two different tags
C12_Witness ==
    /\ npc = "done"
    /\ raw_url.qs = << <<"tag", "old-20">>, <<"th", "a%20b">> >>
    /\ tag1 = DEFAULT_TAG
    /\ tag2 = "other-21"
    /\ twice = Some([raw_url EXCEPT !.qs = << <<"tag", "other-21">>, <<"th", "a+b">> >>])

\* update_loop leaves update_top_deals_cache in this step
BgLeavesUpdate ==
    th["bg"].pc \in {"wait_lock", "refreshing", "submit_raised"} /\ th'["bg"].pc = "sleep"

\* the cycle of update_loop that ends in this step raised
BgCycleFailed ==
    /\ th["bg"].pc \in {"refreshing", "submit_raised"}
    /\ th'["bg"].pc \notin {"refreshing", "submit_raised"}
    /\ recomputed' = recomputed

\* C17: update_loop never ends.  A cycle that raised leaves TOP_DEALS_CACHE and
\* TOP_DEALS_LAST_UPDATE as they were, still stale, frees the lock and puts the
\* loop to sleep for 60 s; a cycle that returned puts it to sleep for one
\* interval; and a loop whose sleep is over can call update_top_deals_cache again.
C17_LoopGoesOn ==
    [][/\ th'["bg"].pc \in {"idle", "wait_lock", "refreshing", "submit_raised", "sleep"}
       /\ BgCycleFailed =>
             /\ th'["bg"].pc = "sleep"
             /\ th'["bg"].wake = now + BACKOFF
             /\ TOP_DEALS_CACHE' = TOP_DEALS_CACHE
             /\ TOP_DEALS_LAST_UPDATE' = TOP_DEALS_LAST_UPDATE
             /\ th["bg"].current_time - TOP_DEALS_LAST_UPDATE' >= TOP_DEALS_UPDATE_INTERVAL
             /\ IsNone(TOP_DEALS_LOCK')
       /\ (BgLeavesUpdate /\ ~BgCycleFailed) =>
             th'["bg"].wake = now + TOP_DEALS_UPDATE_INTERVAL
       /\ (th["bg"].pc = "sleep" /\ now >= th["bg"].wake) => ENABLED BgCall]_vars

\* the first cycle raised, and 60 s later update_loop is recomputing again
C17_Witness ==
    /\ requests = 0
    /\ recomputed = <<>>
    /\ pipeline_runs = 2 * Len(categories)
    /\ th["bg"].pc = "refreshing"
    /\ th["bg"].current_time = StartTime + BACKOFF

(***************************************************************************)
(* Properties of the merge                                                 *)
(***************************************************************************)
\* the deals the category runs returned, by category and place
Positions ==
    {p \in (1..Len(categories)) \X (1..(MaxCategoryFeed + 1)) :
        /\ ~category_results[p[1]].raised
        /\ p[2] <= Len(category_results[p[1]].value.deals)}

ReturnedDeal(p) == category_results[p[1]].value.deals[p[2]]

\* d is the deal at p with the category of its run added
IsTagged(d, p) ==
    /\ DOMAIN d = DOMAIN ReturnedDeal(p) \cup {"category"}
    /\ d.category = categories[p[1]]
    /\ \A k \in DOMAIN ReturnedDeal(p) : d[k] = ReturnedDeal(p)[k]

\* C18: the aggregate holds at most 3 deals (all of them when the runs returned
\* no more); its deals are deals of the category runs, each taken once and
\* tagged with its category, in descending order of relevance score; and no deal
\* left out has a higher relevance score than a deal kept.
C18_MergeTopThree ==
    mpc = "merged" =>
        LET kept == top_deals.deals
        IN /\ Len(kept) <= 3
           /\ Len(kept) = IF Cardinality(Positions) < 3 THEN Cardinality(Positions) ELSE 3
           /\ \A k \in 1..(Len(kept) - 1) : relevance_score(kept[k]) >= relevance_score(kept[k + 1])
           /\ \E f \in [1..Len(kept) -> Positions] :
                 /\ \A j, k \in 1..Len(kept) : j # k => f[j] # f[k]
                 /\ \A k \in 1..Len(kept) : IsTagged(kept[k], f[k])
                 /\ \A p \in Positions \ {f[k] : k \in 1..Len(kept)} :
                       \A k \in 1..Len(kept) :
                           relevance_score(ReturnedDeal(p)) <= relevance_score(kept[k])

\* the runs returned five deals, one run returning two, and three were kept
C18_Witness ==
    /\ mpc = "merged"
    /\ Cardinality(Positions) = 5
    /\ Len(top_deals.deals) = 3
    /\ top_deals.deals[3].category = "home"


(***************************************************************************)
(* Properties of the search-cache lock                                     *)
(***************************************************************************)
\* C19: SEARCH_CACHE_LOCK is held only inside get_cached_search and
\* set_cached_search, never by a thread whose pipeline run is in progress; so
\* while one request runs its pipeline, the other request's cache lookup or
\* store, or its update_top_deals_cache call, can take its next step (a refresh
\* under way holds the one lock it needs).
C19_PipelineHoldsNoLock ==
    /\ \A t \in Threads :
          SEARCH_CACHE_LOCK = Some(t) => th[t].pc \in {"in_lookup", "in_store"}
    /\ \A a \in Requesters, b \in Requesters :
          (a # b /\ th[a].pc = "pipeline") =>
              /\ th[b].pc = "wait_lookup" => ENABLED LookupEnter(b)
              /\ th[b].pc = "in_lookup" => ENABLED LookupLeave(b)
              /\ th[b].pc = "wait_store" => ENABLED StoreEnter(b)
              /\ th[b].pc = "in_store" => ENABLED StoreLeave(b)
              /\ th[b].pc = "wait_lock" => ENABLED (ReturnCached(b) \/ BeginRefresh(b))
              /\ th[b].pc = "refreshing" => TOP_DEALS_LOCK = Some(b)

\* r2 is storing its result for "lamp" while the pipeline of r1 runs for "ring"
C19_Witness ==
    /\ th["r1"].pc = "pipeline" /\ th["r1"].kw = "ring"
    /\ th["r2"].pc = "in_store" /\ th["r2"].kw = "lamp"
    /\ SEARCH_CACHE_LOCK = Some("r2")

(***************************************************************************)
(* Properties of the top-deals lock                                        *)
(***************************************************************************)
Refreshing(t) == th[t].pc \in {"refreshing", "submit_raised"}
WaitsForLock(t) == th[t].pc = "wait_lock"

\* a step that writes TOP_DEALS_CACHE or TOP_DEALS_LAST_UPDATE
WritesTopDeals ==
    \/ TOP_DEALS_CACHE' # TOP_DEALS_CACHE
    \/ TOP_DEALS_LAST_UPDATE' # TOP_DEALS_LAST_UPDATE

\* C20: at most one thread is recomputing the top deals, and it holds
\* TOP_DEALS_LOCK; a call that finds a refresh running cannot go on before the
\* lock is free, and if it read the clock no earlier than the refreshing thread
\* the value now in the cache is not one it would return; every answer is the
\* whole stored value, stored no longer than one interval before the call; and
\* the cache and TOP_DEALS_LAST_UPDATE are written in one step, by the thread
\* that holds the lock, as it leaves the block.
C20_OneRefreshAtATime ==
    /\ [](/\ \A a \in Threads, b \in Threads : (Refreshing(a) /\ Refreshing(b)) => a = b
          /\ \A t \in Threads : Refreshing(t) <=> TOP_DEALS_LOCK = Some(t)
          /\ \A a \in Threads, b \in Threads :
                (Refreshing(a) /\ WaitsForLock(b)) =>
                    /\ ~ENABLED (ReturnCached(b) \/ BeginRefresh(b))
                    /\ th[b].current_time >= th[a].current_time =>
                          ~IsFresh(th[b].current_time, TOP_DEALS_LAST_UPDATE)
          /\ (response.op = "top" /\ response.status = 200) =>
                /\ response.body = TOP_DEALS_CACHE
                /\ IsFresh(response.began, TOP_DEALS_LAST_UPDATE))
    /\ [][WritesTopDeals =>
              \E t \in Threads :
                  /\ Refreshing(t) /\ TOP_DEALS_LOCK = Some(t)
                  /\ TOP_DEALS_LOCK' = None
                  /\ TOP_DEALS_LAST_UPDATE' = th[t].current_time
                  /\ TOP_DEALS_LAST_UPDATE' # TOP_DEALS_LAST_UPDATE
                  /\ TOP_DEALS_CACHE' = response'.body
                  /\ recomputed' = Append(recomputed, th[t].current_time)]_vars

\* update_loop is recomputing, and r1, which read the clock later, waits for the lock
C20_Witness ==
    /\ Refreshing("bg")
    /\ WaitsForLock("r1")
    /\ th["r1"].current_time > th["bg"].current_time

(***************************************************************************)
(* Properties of the two locks together                                    *)
(***************************************************************************)
InSearchLock(t) == th[t].pc \in {"in_lookup", "in_store"}
WaitsForSearchLock(t) == th[t].pc \in {"wait_lookup", "wait_store"}
WaitsForALock(t) == WaitsForSearchLock(t) \/ WaitsForLock(t)

\* C21: no thread holds SEARCH_CACHE_LOCK and TOP_DEALS_LOCK at once; a thread
\* that asks for a lock does not hold it; a lock is held only by a thread inside
\* the with block of that lock, so it is free again on every way out, the ways
\* out by an exception included; and, pipeline runs ending, every thread that
\* waits for a lock gets it (the only steps that end a wait are those that
\* enter the with block).
C21_LocksDeadlockFree ==
    /\ [](\A t \in Threads :
            /\ ~(SEARCH_CACHE_LOCK = Some(t) /\ TOP_DEALS_LOCK = Some(t))
            /\ WaitsForSearchLock(t) => SEARCH_CACHE_LOCK # Some(t)
            /\ WaitsForLock(t) => TOP_DEALS_LOCK # Some(t)
            /\ SEARCH_CACHE_LOCK = Some(t) => InSearchLock(t)
            /\ TOP_DEALS_LOCK = Some(t) => Refreshing(t))
    /\ \A t \in Threads :
          WaitsForALock(t) ~> ~WaitsForALock(t)

\* r1 waits for the top-deals lock that update_loop holds, while r2 holds the
\* search-cache lock
C21_Witness ==
    /\ WaitsForLock("r1")
    /\ TOP_DEALS_LOCK = Some("bg")
    /\ SEARCH_CACHE_LOCK = Some("r2")

(***************************************************************************)
(* Properties of the keyword filter                                        *)
(***************************************************************************)
Range(seq) == {seq[i] : i \in 1..Len(seq)}

\* the title contains the keyword of the run, whatever the case of the letters
ContainsKeyword(title) == Substring(lower(keyword), lower(title))

\* the places of the feed whose title contains the keyword
MatchingPlaces == {i \in 1..Len(entries) : ContainsKeyword(entries[i].title)}

\* the feed has been read and filtered
Filtered == pc \in {"as_completed", "shutdown", "done"} \/ (pc = "raised" /\ ~feed_raises)

\* C22: the entries handed to the workers, the only ones whose page is fetched,
\* are the first max_results entries of the feed whose title contains the
\* keyword as a case-insensitive substring, in feed order; so every deal
\* collected from an entry has a title that contains the keyword, and these are
\* the deals of a result that is not a fallback.
C22_OnlyMatchingEnriched ==
    /\ Len(futures) = Len(taken)
    /\ Filtered =>
          /\ Len(taken) = IF Cardinality(MatchingPlaces) < max_results
                          THEN Cardinality(MatchingPlaces) ELSE max_results
          /\ \A k \in 1..Len(taken) :
                \E i \in MatchingPlaces :
                    /\ taken[k] = entries[i]
                    /\ Cardinality({j \in MatchingPlaces : j < i}) = k - 1
    /\ \A k \in 1..Len(deals) :
          \E e \in Range(taken) : deals[k].title = <<e.title>> /\ ContainsKeyword(e.title)
    /\ (pc = "done" /\ deals # <<>>) => result.deals = deals

\* a finished run for "ring" that passed over a "Desk Lamp" entry and returned
\* the deal of the "Smart RING $20" entry after it
C22_Witness ==
    /\ pc = "done"
    /\ keyword = "ring"
    /\ \E i \in 1..Len(entries), j \in 1..Len(entries) :
          /\ i < j
          /\ entries[i].title = "Desk Lamp"
          /\ entries[j].title = "Smart RING $20"
    /\ \A k \in 1..Len(taken) : taken[k].title # "Desk Lamp"
    /\ \E k \in 1..Len(result.deals) : result.deals[k].title = <<"Smart RING $20">>

====
